---- MODULE Spec2Model ----
(***************************************************************************)
(* The SQL agent of src/agents/sql_agent/sql_agent.py as a state machine:  *)
(* the LangGraph workflow (one node per action, the conditional edge that  *)
(* leaves a node evaluated in the same step), the State channels the       *)
(* checkpointer persists per thread, and the service's invoke entry.       *)
(* Language model, database, context store and renderer are environment:   *)
(* each call returns any value of a small set.                             *)
(***************************************************************************)
EXTENDS Integers, Sequences, FiniteSets, TLC

\* ---------------------------------------------------------------- bounds
\* questions submitted on one thread
MaxInvocations == 2

\* a follow-up question is submitted while the thread's log is shorter than this
MaxLog == 14

\* supersteps one invocation may run before GraphRecursionError
RecursionLimit == 25

\* ------------------------------------------------- environment vocabulary
UserMessage == "user question"
FollowUp == "follow-up question"
Questions == {"rewritten question"}
Queries == {"SELECT 1", "SELECT 2"}
SelectorCalls == {<<"orders">>, <<"parts">>}
Briefs == {<<"fact1">>, <<"fact1", "fact2">>}
ChartTypes == {"line", "bar", "no chart"}
\* ids the reranker returns: none, two of the candidates, or an unknown id
\* alone or after a candidate's
Rerankings == {<<>>, <<2, 1>>, <<9>>, <<2, 9>>}
\* rows of the collection "sql_context" when the service starts: none, or these
SeedContexts ==
    {[id |-> 1, text |-> "question1", context |-> "context1"],
     [id |-> 2, text |-> "question2", context |-> "context2"],
     [id |-> 3, text |-> "question3", context |-> "context3"]}
DbResults == {<<"[(1,)]">>, <<"Error:", "(1054) unknown column">>}

\* --------------------------------------------------------------- messages
HumanMessage(c) == [type |-> "human", content |-> c, tool_calls |-> <<>>]
AIMessage(c) == [type |-> "ai", content |-> c, tool_calls |-> <<>>]
AIToolCalls(calls) == [type |-> "ai", content |-> <<>>, tool_calls |-> calls]
ToolMessage(c) == [type |-> "tool", content |-> c, tool_calls |-> <<>>]
ToolCall(n, a) == [name |-> n, args |-> a]

\* a documents value: a list, or None
List(l) == [none |-> FALSE, list |-> l]
NoDocuments == [none |-> TRUE, list |-> <<>>]

\* str.startswith("Error:") on a content held as a sequence of tokens
StartsWithError(c) == Len(c) > 0 /\ c[1] = "Error:"

Last(s) == s[Len(s)]

VARIABLES
    pc,            \* the node to run next, or how the last invocation stopped
    step,          \* supersteps run in the current invocation
    invocations,   \* invocations made on the thread
    ran,           \* the nodes run in the current invocation, in order
    classification, \* the router's classification in the current invocation
    written,       \* the channels of State that hold a value
    messages,
    question,
    information,
    sufficient_info,
    query,
    max_retries,
    chart_type,
    classifier_calls, \* calls of the router's classifier in the current invocation
    result,        \* what the database returned for the last statement executed
    prompt,        \* the messages the last query generator run gave its model
    active,        \* the nodes the last superstep triggered for the next one
    reranked,      \* the candidates get_context last retrieved and the ids chosen
    fork,          \* the latest checkpoint whose next node is sufficient_tables
    routed,        \* the messages the router's classifier was last given
    evidence,      \* the contents the last contextualiser run gave its model,
                   \* each with the number of messages that carried it
    connected,     \* pymilvus connection alias "default" holds a connection
    sql_context,   \* rows of the collection "sql_context"
    sql_agent,     \* rows of the collection "sql_agent"
    auto_id,       \* the primary key the store gives the next inserted row
    endpoint,      \* the service's latest Context Store or update call
    service_calls, \* such calls made
    documents,     \* GraphState of the adaptive RAG agent's thread
    generation,
    summary,
    max_iterations,
    max_generation_attempts,
    models         \* how the agent's models and its store answer in this invocation

store_vars == <<connected, sql_context, sql_agent, auto_id, endpoint, service_calls>>

rag_vars == <<documents, generation, summary, max_iterations, max_generation_attempts,
              models>>

thread_vars == <<pc, step, invocations, ran, classification, written, messages, question,
                 information, sufficient_info, query, max_retries, chart_type,
                 classifier_calls, result, prompt, active, reranked, fork, routed, evidence>>

vars == <<pc, step, invocations, ran, classification, written, messages, question,
          information, sufficient_info, query, max_retries, chart_type,
          classifier_calls, result, prompt, active, reranked, fork, routed, evidence,
          store_vars, rag_vars>>

Stopped == {"idle", "END", "GraphRecursionError", "Exception",
            "ConnectionNotExistException"}

\* no service call made yet
\* the models' answers while no invocation of the adaptive RAG agent was made
NoModels ==
    [datasource |-> "vectorstore", retrieved_docs |-> <<>>, relevant |-> {},
     hallucination_grade |-> "yes", answer_grade |-> "yes"]

NoCall == [name |-> "none", phase |-> "done", id |-> 0, text |-> <<>>, context |-> "",
           found |-> <<>>]

Init ==
    /\ pc = "idle"
    /\ step = 0
    /\ invocations = 0
    /\ ran = <<>>
    /\ classification = ""
    /\ written = {}
    /\ messages = <<>>
    /\ question = ""
    /\ information = <<>>
    /\ sufficient_info = TRUE
    /\ query = ""
    /\ max_retries = 0
    /\ chart_type = ""
    /\ classifier_calls = 0
    /\ result = <<>>
    /\ prompt = <<>>
    /\ active = {}
    /\ reranked = [candidates |-> <<>>, ids |-> <<>>]
    /\ fork = {}
    /\ routed = <<>>
    /\ evidence = [content \in {} |-> 1]
    /\ connected = TRUE
    /\ sql_context \in {{}, SeedContexts}
    /\ sql_agent = {}
    /\ auto_id = 4
    /\ endpoint = NoCall
    /\ service_calls = 0
    /\ documents = List(<<>>)
    /\ generation = ""
    /\ summary = ""
    /\ max_iterations = 0
    /\ max_generation_attempts = 0
    /\ models = NoModels

\* ------------------------------------------------------------------ edges
\* each conditional edge: the label its function returns, and the path map
\* that add_conditional_edges gives it
sufficient_context(info) ==
    IF info # <<>> THEN "query_gen_with_context" ELSE "info_sql_database_tool_call"

get_context_path ==
    [info_sql_database_tool_call |-> "END",
     query_gen_with_context |-> "query_gen_with_context"]

\* the same edge when each label leads to the node of that name
discovery_path ==
    [info_sql_database_tool_call |-> "info_sql_database_tool_call",
     query_gen_with_context |-> "query_gen_with_context"]

query_router_ignoring(c) == "transform_user_question"

query_router(c) ==
    IF c = "SQLRequest" THEN "transform_user_question" ELSE "react_agent"

start_path ==
    [react_agent |-> "react_agent",
     transform_user_question |-> "transform_user_question"]

continue_sufficient_tables_unbounded(retries, sufficient) ==
    IF sufficient THEN "query_gen" ELSE "selector"

continue_sufficient_tables_early(retries, sufficient) ==
    IF sufficient \/ retries = 1 THEN "query_gen" ELSE "selector"

continue_sufficient_tables(retries, sufficient) ==
    IF sufficient \/ retries = 0 THEN "query_gen" ELSE "selector"

sufficient_tables_path == [selector |-> "tables_selector", query_gen |-> "query_gen"]

continue_query_gen_ignoring(retries, last_message) ==
    IF retries < 0 THEN "failed" ELSE "correct_query"

continue_query_gen(retries, last_message) ==
    IF retries < 0 THEN "failed"
    ELSE IF StartsWithError(last_message.content) THEN "query_gen"
    ELSE "correct_query"

query_execute_path_charting ==
    [query_gen |-> "chart_generation", correct_query |-> "chart_generation",
     failed |-> "END"]

query_execute_path_reexecuting ==
    [query_gen |-> "get_query_execution", correct_query |-> "chart_generation",
     failed |-> "END"]

query_execute_path ==
    [query_gen |-> "query_gen", correct_query |-> "chart_generation", failed |-> "END"]

generate_chart_swapped(type) ==
    IF type = "line" THEN "bar_graph_tool"
    ELSE IF type = "bar" THEN "line_graph_tool"
    ELSE "None"

generate_chart(type) ==
    IF type = "line" THEN "line_graph_tool"
    ELSE IF type = "bar" THEN "bar_graph_tool"
    ELSE "None"

chart_generation_path ==
    [line_graph_tool |-> "line_graph_tool", bar_graph_tool |-> "bar_graph_tool",
     None |-> "END"]

\* ------------------------------------------------------------------ tools
\* characters of a result the executor returns before it cuts the rest
ResultLimit == 2000

db_query_tool_cutting_early(r) ==
    IF StartsWithError(r)
    THEN <<"Error:", "Query failed. Please rewrite your query and try again.",
           "Details:">> \o r
    ELSE IF Len(r) >= ResultLimit
    THEN SubSeq(r, 1, ResultLimit) \o <<".", ".", ".">>
    ELSE r

\* db.run_no_throw's text r (one element per character, the tag "Error:" held
\* as one element) to the payload the tool returns
db_query_tool(r) ==
    IF StartsWithError(r)
    THEN <<"Error:", "Query failed. Please rewrite your query and try again.",
           "Details:">> \o r
    ELSE IF Len(r) > ResultLimit
    THEN SubSeq(r, 1, ResultLimit) \o <<".", ".", ".">>
    ELSE r

handle_tool_error_untagged(error) == error \o <<"please fix your mistakes.">>

\* the fallback of a tool node: the exception's repr as an error payload
handle_tool_error(error) == <<"Error:">> \o error \o <<"please fix your mistakes.">>

get_schema_tool(table_name) == <<"Selected Table", table_name, "Schema:", table_name>>

\* the edges with a second one out of the normalizer
workflow_edges_decomposing ==
    {<<"transform_user_question", "get_context">>,
     <<"info_sql_database_tool_call", "info_sql_database_tool">>,
     <<"info_sql_database_tool", "tables_selector">>,
     <<"tables_selector", "get_schema_tool">>,
     <<"get_schema_tool", "contextualiser">>,
     <<"contextualiser", "sufficient_tables">>,
     <<"query_gen_with_context", "get_query_execution">>,
     <<"query_gen", "get_query_execution">>,
     <<"get_query_execution", "query_execute">>,
     <<"line_graph_tool", "final_answer">>,
     <<"bar_graph_tool", "final_answer">>,
     <<"react_agent", "END">>,
     <<"final_answer", "END">>,
     <<"transform_user_question", "query_gen">>}

\* workflow.add_edge(from, to)
workflow_edges ==
    {<<"transform_user_question", "get_context">>,
     <<"info_sql_database_tool_call", "info_sql_database_tool">>,
     <<"info_sql_database_tool", "tables_selector">>,
     <<"tables_selector", "get_schema_tool">>,
     <<"get_schema_tool", "contextualiser">>,
     <<"contextualiser", "sufficient_tables">>,
     <<"query_gen_with_context", "get_query_execution">>,
     <<"query_gen", "get_query_execution">>,
     <<"get_query_execution", "query_execute">>,
     <<"line_graph_tool", "final_answer">>,
     <<"bar_graph_tool", "final_answer">>,
     <<"react_agent", "END">>,
     <<"final_answer", "END">>}

\* the nodes a node's plain edges trigger
Successors(node) == {e[2] : e \in {d \in workflow_edges : d[1] = node}}

\* ------------------------------------------------------------ invocation
\* a node may run while the invocation has supersteps left
Runs(node) == pc = node /\ step < RecursionLimit

Advance(node, next) ==
    /\ pc' = next
    /\ step' = step + 1
    /\ ran' = Append(ran, node)
    /\ invocations' = invocations
    /\ classification' = classification
    /\ classifier_calls' = classifier_calls
    /\ active' = ({next} \cup Successors(node)) \ {"END"}
    /\ UNCHANGED store_vars

\* a question arrives on the thread: the previous run has stopped (at) or the
\* client has dropped its stream before the node (at) ran
submit_restarting(at) ==
    /\ pc \in at
    /\ endpoint.phase # "connecting"
    /\ invocations < MaxInvocations
    /\ Len(messages) < MaxLog
    /\ invocations' = invocations + 1
    /\ messages' = <<HumanMessage(<<IF invocations = 0 THEN UserMessage ELSE FollowUp>>)>>
    /\ written' = written \cup {"messages"}
    /\ pc' = "START"
    /\ step' = 0
    /\ ran' = <<>>
    /\ classification' = ""
    /\ classifier_calls' = 0
    /\ active' = {}
    /\ UNCHANGED store_vars
    /\ UNCHANGED <<rag_vars, evidence, routed, fork, reranked, result, prompt, question, information, sufficient_info, query, max_retries, chart_type>>

submit(at) ==
    /\ pc \in at
    /\ endpoint.phase # "connecting"
    /\ invocations < MaxInvocations
    /\ Len(messages) < MaxLog
    /\ invocations' = invocations + 1
    /\ messages' = Append(messages,
                        HumanMessage(<<IF invocations = 0 THEN UserMessage ELSE FollowUp>>))
    /\ written' = written \cup {"messages"}
    /\ pc' = "START"
    /\ step' = 0
    /\ ran' = <<>>
    /\ classification' = ""
    /\ classifier_calls' = 0
    /\ active' = {}
    /\ UNCHANGED store_vars
    /\ UNCHANGED <<rag_vars, evidence, routed, fork, reranked, result, prompt, question, information, sufficient_info, query, max_retries, chart_type>>

invoke == submit(Stopped)

\* the nodes at which a run leaves schema discovery
Generation == {"query_gen", "query_gen_with_context"}

invoke_discovery == submit(Stopped \cup Generation)

GraphRecursion ==
    /\ pc \notin Stopped
    /\ pc # "START"
    /\ step >= RecursionLimit
    /\ pc' = "GraphRecursionError"
    /\ UNCHANGED <<rag_vars, evidence, routed, fork, reranked, step, invocations, ran, classification, written, messages, question,
                   information, sufficient_info, query, max_retries, chart_type,
                   classifier_calls, result, prompt, active, store_vars>>

\* ------------------------------------------------------------------ nodes
\* the newly submitted message, were the router to read the end of the log
user_question_latest(log) == log[Len(log)]

\* query_router: user_question = state["messages"][0]
user_question(log) == log[1]

\* what query_router_llm.invoke does: a classification, or an exception
RouterOutcomes == {"GeneralQuestion", "SQLRequest", "raises"}

\* the conditional edge out of START, calling the classifier once more when
\* its first call raises
start_retrying ==
    /\ pc = "START"
    /\ classifier_calls' = classifier_calls + 1
    /\ \E c \in RouterOutcomes :
          IF c = "raises"
          THEN /\ pc' = (IF classifier_calls = 0 THEN "START" ELSE "Exception")
               /\ classification' = classification
          ELSE classification' = c /\ pc' = start_path[query_router(c)]
    /\ routed' = <<user_question(messages)>>
    /\ active' = (IF pc' \in {"START", "Exception"} THEN {} ELSE {pc'})
    /\ UNCHANGED store_vars
    /\ UNCHANGED <<rag_vars, evidence, fork, reranked, result, prompt, step, invocations, ran, written, messages, question,
                   information, sufficient_info, query, max_retries, chart_type>>

\* the conditional edge out of START
start ==
    /\ pc = "START"
    /\ classifier_calls' = classifier_calls + 1
    /\ \E c \in RouterOutcomes :
          IF c = "raises"
          THEN pc' = "Exception" /\ classification' = classification
          ELSE classification' = c /\ pc' = start_path[query_router(c)]
    /\ routed' = <<user_question(messages)>>
    /\ active' = (IF pc' \in {"START", "Exception"} THEN {} ELSE {pc'})
    /\ UNCHANGED store_vars
    /\ UNCHANGED <<rag_vars, evidence, fork, reranked, result, prompt, step, invocations, ran, written, messages, question,
                   information, sufficient_info, query, max_retries, chart_type>>

react_agent ==
    /\ Runs("react_agent")
    /\ \E answer \in {<<AIMessage(<<"answer">>)>>,
                      <<AIToolCalls(<<ToolCall("sql_db_list_tables", "")>>),
                        ToolMessage(<<"orders, parts">>),
                        AIMessage(<<"answer">>)>>} :
          messages' = messages \o answer
    /\ Advance("react_agent", "END")
    /\ UNCHANGED <<rag_vars, evidence, routed, fork, reranked, result, prompt, written, question, information, sufficient_info, query,
                   max_retries, chart_type>>

transform_user_question_keeping ==
    /\ Runs("transform_user_question")
    /\ \E q \in Questions :
          /\ question' = q
          /\ messages' = Append(messages, AIMessage(<<q>>))
    /\ max_retries' = (IF "max_retries" \in written THEN max_retries ELSE 1)
    /\ written' = written \cup {"question", "max_retries"}
    /\ Advance("transform_user_question", "get_context")
    /\ UNCHANGED <<rag_vars, evidence, routed, fork, reranked, result, prompt, information, sufficient_info, query, chart_type>>

transform_user_question ==
    /\ Runs("transform_user_question")
    /\ \E q \in Questions :
          /\ question' = q
          /\ messages' = Append(messages, AIMessage(<<q>>))
    /\ max_retries' = 1
    /\ written' = written \cup {"question", "max_retries"}
    /\ Advance("transform_user_question", "get_context")
    /\ UNCHANGED <<rag_vars, evidence, routed, fork, reranked, result, prompt, information, sufficient_info, query, chart_type>>

RECURSIVE Concatenate(_, _)

\* information = f"{doc}\n\n" + information: the selected contexts, last first
Concatenate_prepending(id_to_context, ids) ==
    [k \in 1..(2 * Len(ids)) |->
        IF k % 2 = 1 THEN id_to_context[ids[Len(ids) + 1 - ((k + 1) \div 2)]]
        ELSE "\n\n"]

\* information += f"{doc}\n\n" for each selected id
Concatenate(id_to_context, ids) ==
    IF ids = <<>> THEN <<>>
    ELSE <<id_to_context[Head(ids)], "\n\n">> \o Concatenate(id_to_context, Tail(ids))

Elements(s) == {s[i] : i \in 1..Len(s)}

\* rows the store returns for one search
RetrieveLimit == 8

RECURSIVE Nearest(_)
\* an order of similarity over rows: here, by id
Nearest(rows) ==
    IF rows = {} THEN <<>>
    ELSE LET first == CHOOSE r \in rows : \A o \in rows : r.id <= o.id
         IN <<first>> \o Nearest(rows \ {first})

\* the limit nearest rows of a collection
retrieve_contexts(rows, limit) ==
    SubSeq(Nearest(rows), 1, IF Cardinality(rows) < limit THEN Cardinality(rows) ELSE limit)

\* a retriever that passes over ids it did not retrieve: id_to_context.get(id)
get_context_skipping(path) ==
    /\ Runs("get_context")
    /\ IF ~connected
       THEN \* collection.search finds no connection under the alias
            /\ pc' = "ConnectionNotExistException"
            /\ UNCHANGED <<step, invocations, ran, classification, written, messages,
                           information, classifier_calls, active, reranked, store_vars>>
       ELSE LET context == retrieve_contexts(sql_context, RetrieveLimit)
                id_to_context == [id \in {r.id : r \in Elements(context)} |->
                                     (CHOOSE r \in Elements(context) : r.id = id).context]
            IN IF context = <<>>
               THEN /\ messages' = Append(messages, AIMessage(<<"No context found">>))
                    /\ information' = <<>>
                    /\ written' = written \cup {"information"}
                    /\ reranked' = [candidates |-> <<>>, ids |-> <<>>]
                    /\ Advance("get_context", path[sufficient_context(<<>>)])
               ELSE \E ids \in Rerankings :
                    LET known == SelectSeq(ids, LAMBDA id : id \in DOMAIN id_to_context)
                    IN /\ information' = Concatenate(id_to_context, known)
                       /\ messages' = Append(messages,
                             AIMessage(<<"Retrieved Context:">>
                                       \o Concatenate(id_to_context, known)))
                       /\ written' = written \cup {"information"}
                       /\ reranked' = [candidates |-> context, ids |-> ids]
                       /\ Advance("get_context",
                                  path[sufficient_context(Concatenate(id_to_context, known))])
    /\ UNCHANGED <<rag_vars, evidence, routed, fork, result, prompt, question, sufficient_info, query, max_retries,
                   chart_type>>

get_context(path) ==
    /\ Runs("get_context")
    /\ IF ~connected
       THEN \* collection.search finds no connection under the alias
            /\ pc' = "ConnectionNotExistException"
            /\ UNCHANGED <<step, invocations, ran, classification, written, messages,
                           information, classifier_calls, active, reranked, store_vars>>
       ELSE LET context == retrieve_contexts(sql_context, RetrieveLimit)
                id_to_context == [id \in {r.id : r \in Elements(context)} |->
                                     (CHOOSE r \in Elements(context) : r.id = id).context]
            IN IF context = <<>>
               THEN /\ messages' = Append(messages, AIMessage(<<"No context found">>))
                    /\ information' = <<>>
                    /\ written' = written \cup {"information"}
                    /\ reranked' = [candidates |-> <<>>, ids |-> <<>>]
                    /\ Advance("get_context", path[sufficient_context(<<>>)])
               ELSE \E ids \in Rerankings :
                    IF Elements(ids) \subseteq DOMAIN id_to_context
                    THEN /\ information' = Concatenate(id_to_context, ids)
                         /\ messages' = Append(messages,
                               AIMessage(<<"Retrieved Context:">>
                                         \o Concatenate(id_to_context, ids)))
                         /\ written' = written \cup {"information"}
                         /\ reranked' = [candidates |-> context, ids |-> ids]
                         /\ Advance("get_context",
                                    path[sufficient_context(Concatenate(id_to_context, ids))])
                    ELSE \* id_to_context[id] raises KeyError
                         /\ pc' = "Exception"
                         /\ reranked' = [candidates |-> context, ids |-> ids]
                         /\ UNCHANGED <<step, invocations, ran, classification, written,
                                        messages, information, classifier_calls, active,
                                        store_vars>>
    /\ UNCHANGED <<rag_vars, evidence, routed, fork, result, prompt, question, sufficient_info, query, max_retries,
                   chart_type>>

workflow_get_context == get_context(get_context_path)

discovery_get_context == get_context(discovery_path)

Generate_forgetting(node, input) ==
    /\ Runs(node)
    /\ prompt' = input
    /\ information' = <<>>
    /\ \E sql \in Queries :
          /\ query' = sql
          /\ messages' = Append(messages, AIMessage(<<"Query:", sql, "Reasoning:">>))
    /\ written' = written \cup {"query"}
    /\ Advance(node, "get_query_execution")
    /\ UNCHANGED <<rag_vars, evidence, routed, fork, reranked, result, question, sufficient_info, max_retries, chart_type>>

\* a generator run: input is the messages formatted into its prompt
Generate(node, input) ==
    /\ Runs(node)
    /\ prompt' = input
    /\ \E sql \in Queries :
          /\ query' = sql
          /\ messages' = Append(messages, AIMessage(<<"Query:", sql, "Reasoning:">>))
    /\ written' = written \cup {"query"}
    /\ Advance(node, "get_query_execution")
    /\ UNCHANGED <<rag_vars, evidence, routed, fork, reranked, result, question, information, sufficient_info, max_retries, chart_type>>

query_gen_with_context ==
    Generate("query_gen_with_context",
             <<HumanMessage(<<question>>), AIMessage(information)>>)

query_gen ==
    Generate("query_gen",
             <<HumanMessage(<<question>>), AIMessage(information)>>
             \o (IF StartsWithError(Last(messages).content)
                 THEN <<Last(messages)>> ELSE <<>>))

get_query_execution ==
    /\ Runs("get_query_execution")
    /\ messages' = Append(messages, AIToolCalls(<<ToolCall("db_query_tool", query)>>))
    /\ Advance("get_query_execution", "query_execute")
    /\ UNCHANGED <<rag_vars, evidence, routed, fork, reranked, result, prompt, written, question, information, sufficient_info, query,
                   max_retries, chart_type>>

\* exceptions raised inside the executor's tool node, as their repr
ToolExceptions == {<<"TypeError('not all arguments converted')">>}

\* the payload the executor's tool node logs for what running the tool did
Payload(outcome) ==
    IF outcome \in ToolExceptions THEN handle_tool_error(outcome)
    ELSE db_query_tool(outcome)

\* the tool node, were a failed execution to cost one unit of the budget
Execute_decrementing(outcomes) ==
    /\ Runs("query_execute")
    /\ \E outcome \in outcomes :
          /\ result' = outcome
          /\ messages' = Append(messages, ToolMessage(Payload(outcome)))
          /\ max_retries' = IF StartsWithError(Payload(outcome))
                            THEN max_retries - 1 ELSE max_retries
          /\ Advance("query_execute",
                     query_execute_path[continue_query_gen(max_retries',
                                            ToolMessage(Payload(outcome)))])
    /\ UNCHANGED <<rag_vars, evidence, routed, fork, reranked, prompt, written, question, information, sufficient_info, query,
                   chart_type>>

\* the tool node over db_query_tool, the database answering with any outcome
Execute(outcomes) ==
    /\ Runs("query_execute")
    /\ \E outcome \in outcomes :
          /\ result' = outcome
          /\ messages' = Append(messages, ToolMessage(Payload(outcome)))
          /\ Advance("query_execute",
                     query_execute_path[continue_query_gen(max_retries,
                                            ToolMessage(Payload(outcome)))])
    /\ UNCHANGED <<rag_vars, evidence, routed, fork, reranked, prompt, written, question, information, sufficient_info, query,
                   max_retries, chart_type>>

query_execute == Execute(DbResults)

chart_generation ==
    /\ Runs("chart_generation")
    /\ \E type \in ChartTypes :
          /\ chart_type' = type
          /\ messages' = Append(messages,
                IF type = "line" THEN AIToolCalls(<<ToolCall("line_graph_tool", "series")>>)
                ELSE IF type = "bar" THEN AIToolCalls(<<ToolCall("bar_graph", "series")>>)
                ELSE AIMessage(<<"Could not generate chart">>))
          /\ Advance("chart_generation", chart_generation_path[generate_chart(type)])
    /\ written' = written \cup {"chart_type"}
    /\ UNCHANGED <<rag_vars, evidence, routed, fork, reranked, result, prompt, question, information, sufficient_info, query, max_retries>>

\* a ToolNode over a renderer: the image markup, or the tool's error text
Renderer(node) ==
    /\ Runs(node)
    /\ \E out \in {<<"![chart](data:image/png;base64)">>,
                   <<"Error:", "ValueError", "Please fix your mistakes.">>} :
          messages' = Append(messages, ToolMessage(out))
    /\ Advance(node, "final_answer")
    /\ UNCHANGED <<rag_vars, evidence, routed, fork, reranked, result, prompt, written, question, information, sufficient_info, query,
                   max_retries, chart_type>>

line_graph_tool == Renderer("line_graph_tool")

bar_graph_tool == Renderer("bar_graph_tool")

final_answer ==
    /\ Runs("final_answer")
    /\ messages' = Append(messages, AIMessage(<<query>>))
    /\ Advance("final_answer", "END")
    /\ UNCHANGED <<rag_vars, evidence, routed, fork, reranked, result, prompt, written, question, information, sufficient_info, query,
                   max_retries, chart_type>>

Next ==
    \/ invoke
    \/ GraphRecursion
    \/ start
    \/ react_agent
    \/ transform_user_question
    \/ workflow_get_context
    \/ query_gen_with_context
    \/ query_gen
    \/ get_query_execution
    \/ query_execute
    \/ chart_generation
    \/ line_graph_tool
    \/ bar_graph_tool
    \/ final_answer

Spec == Init /\ [][Next]_vars

info_sql_database_tool_call ==
    /\ Runs("info_sql_database_tool_call")
    /\ messages' = Append(messages, AIToolCalls(<<ToolCall("info_sql_database_tool", "")>>))
    /\ Advance("info_sql_database_tool_call", "info_sql_database_tool")
    /\ UNCHANGED <<rag_vars, evidence, routed, fork, reranked, result, prompt, written, question, information, sufficient_info, query,
                   max_retries, chart_type>>

info_sql_database_tool ==
    /\ Runs("info_sql_database_tool")
    /\ messages' = Append(messages, ToolMessage(<<"Tables and Descriptions:", "orders, parts">>))
    /\ Advance("info_sql_database_tool", "tables_selector")
    /\ UNCHANGED <<rag_vars, evidence, routed, fork, reranked, result, prompt, written, question, information, sufficient_info, query,
                   max_retries, chart_type>>

\* state.get("sufficient_info", True)
GetSufficientInfo == IF "sufficient_info" \in written THEN sufficient_info ELSE TRUE

\* a selector that never spends the budget
selector_retries_keeping(retries, sufficient) == retries

selector_retries(retries, sufficient) == IF ~sufficient THEN retries - 1 ELSE retries

\* the tool calls of a model response, one per proposed table
RECURSIVE SchemaCalls(_)
SchemaCalls(names) ==
    IF names = <<>> THEN <<>>
    ELSE <<ToolCall("get_schema_tool", Head(names))>> \o SchemaCalls(Tail(names))

selector ==
    /\ Runs("tables_selector")
    /\ max_retries' = selector_retries(max_retries, GetSufficientInfo)
    /\ \E names \in SelectorCalls :
          messages' = Append(messages, AIToolCalls(SchemaCalls(names)))
    /\ Advance("tables_selector", "get_schema_tool")
    /\ UNCHANGED <<rag_vars, evidence, routed, fork, reranked, result, prompt, written, question, information, sufficient_info, query, chart_type>>

\* a ToolNode: one ToolMessage per tool call of the last message
RECURSIVE SchemaMessages(_)
SchemaMessages(calls) ==
    IF calls = <<>> THEN <<>>
    ELSE <<ToolMessage(get_schema_tool(Head(calls).args))>> \o SchemaMessages(Tail(calls))

get_schema_tool_node ==
    /\ Runs("get_schema_tool")
    /\ messages' = messages \o SchemaMessages(Last(messages).tool_calls)
    /\ Advance("get_schema_tool", "contextualiser")
    /\ UNCHANGED <<rag_vars, evidence, routed, fork, reranked, result, prompt, written, question, information, sufficient_info, query,
                   max_retries, chart_type>>

\* set([m.content for m in state["messages"] if isinstance(m, ToolMessage)])
unique_tool_calls(log) == {log[i].content : i \in {j \in 1..Len(log) : log[j].type = "tool"}}

\* one entry for every tool message of the log, alike or not
db_info_repeating(log) ==
    [content \in unique_tool_calls(log) |->
        Cardinality({j \in 1..Len(log) : log[j].type = "tool" /\ log[j].content = content})]

\* [AIMessage(content=message) for message in unique_tool_calls]
db_info(log) == [content \in unique_tool_calls(log) |-> 1]

contextualiser ==
    /\ Runs("contextualiser")
    /\ \E content \in Briefs :
          /\ information' = content
          /\ messages' = Append(messages, AIMessage(content))
    /\ written' = written \cup {"information"}
    /\ Advance("contextualiser", "sufficient_tables")
    /\ fork' = {[messages |-> messages', information |-> information',
                 written |-> written', ran |-> ran', question |-> question,
                 sufficient_info |-> sufficient_info, query |-> query,
                 max_retries |-> max_retries, chart_type |-> chart_type]}
    /\ evidence' = db_info(messages)
    /\ UNCHANGED <<rag_vars, routed, reranked, result, prompt, question, sufficient_info, query, max_retries, chart_type>>

sufficient_tables ==
    /\ Runs("sufficient_tables")
    /\ \E sufficiency_decision \in BOOLEAN :
          /\ sufficient_info' = sufficiency_decision
          /\ messages' = Append(messages,
                AIMessage(<<"Sufficient Tables:",
                            IF sufficiency_decision THEN "True" ELSE "False",
                            "Reason:">>))
          /\ Advance("sufficient_tables",
                     sufficient_tables_path[continue_sufficient_tables(max_retries,
                                                                      sufficiency_decision)])
    /\ written' = written \cup {"sufficient_info"}
    /\ UNCHANGED <<rag_vars, evidence, routed, fork, reranked, result, prompt, question, information, query, max_retries, chart_type>>

\* the nodes the workflow registers after get_context's schema-discovery label
Discovery ==
    \/ info_sql_database_tool_call
    \/ info_sql_database_tool
    \/ selector
    \/ get_schema_tool_node
    \/ contextualiser
    \/ sufficient_tables

\* ------------------------------------------------ the executor on its own
\* results this much shorter and longer than ResultLimit are executed
Margin == 60

Digits == <<"0", "1", "2", "3", "4", "5", "6", "7", "8", "9">>

\* a result text of n characters
Text(n) == [i \in 1..n |-> Digits[(i % 10) + 1]]

LongResults ==
    {Text(n) : n \in (ResultLimit - Margin)..(ResultLimit + Margin)}
    \cup {<<"Error:">> \o Text(ResultLimit + Margin)}
    \cup ToolExceptions

\* the thread as a first question leaves it when the executor is next
InitExecutor ==
    /\ pc = "query_execute"
    /\ step = 4
    /\ invocations = 1
    /\ ran = <<"transform_user_question", "get_context", "query_gen_with_context",
               "get_query_execution">>
    /\ classification = "SQLRequest"
    /\ written = {"messages", "question", "max_retries", "information", "query"}
    /\ messages = <<HumanMessage(<<UserMessage>>),
                    AIMessage(<<"rewritten question">>),
                    AIMessage(<<"Retrieved Context:", "context2", "\n\n", "context1",
                                "\n\n">>),
                    AIMessage(<<"Query:", "SELECT 1", "Reasoning:">>),
                    AIToolCalls(<<ToolCall("db_query_tool", "SELECT 1")>>)>>
    /\ question = "rewritten question"
    /\ information = <<"context2", "\n\n", "context1", "\n\n">>
    /\ sufficient_info = TRUE
    /\ query = "SELECT 1"
    /\ max_retries = 1
    /\ chart_type = ""
    /\ classifier_calls = 1
    /\ result = <<>>
    /\ prompt = <<HumanMessage(<<"rewritten question">>),
                  AIMessage(<<"context2", "\n\n", "context1", "\n\n">>)>>
    /\ active = {"query_execute"}
    /\ reranked = [candidates |-> Nearest(SeedContexts), ids |-> <<2, 1>>]
    /\ fork = {}
    /\ routed = <<HumanMessage(<<UserMessage>>)>>
    /\ evidence = [content \in {} |-> 1]
    /\ connected = TRUE
    /\ sql_context = SeedContexts
    /\ sql_agent = {}
    /\ auto_id = 4
    /\ endpoint = NoCall
    /\ service_calls = 0
    /\ documents = List(<<>>)
    /\ generation = ""
    /\ summary = ""
    /\ max_iterations = 0
    /\ max_generation_attempts = 0
    /\ models = NoModels

execute_long == Execute(LongResults)

SpecExecutor == InitExecutor /\ [][execute_long]_vars

\* ------------------------------------------------ Context Store endpoints
\* service calls made on the Context Store
MaxCalls == 3

\* what state.values.get(key) returns for a key the state does not hold; no
\* row has this id
None == 0

\* limit of retrieve_contexts when the caller gives none
DefaultLimit == 5

\* the calls a client makes: the endpoint, and the id / text / context it sends
Requests ==
    {[name |-> "insert_context", id |-> None, text |-> <<"question4">>,
      context |-> "context4"],
     [name |-> "delete_context", id |-> 1, text |-> <<>>, context |-> ""],
     [name |-> "delete_context", id |-> 4, text |-> <<>>, context |-> ""],
     [name |-> "retrieve_context", id |-> None, text |-> <<"question4">>, context |-> ""],
     [name |-> "save_information", id |-> None, text |-> <<>>, context |-> ""],
     [name |-> "delete_information", id |-> None, text |-> <<>>, context |-> ""]}

\* state.values.get(key) of the thread's latest checkpoint, as f"{...}" prints it
StateValue(key, value) == IF key \in written THEN value ELSE <<"None">>

\* a handler up to and including connections.disconnect("default") in
\* get_collection; save_information and delete_information have read the
\* thread's state by then
get_collection_disconnect ==
    /\ endpoint.phase # "connecting"
    /\ service_calls < MaxCalls
    /\ service_calls' = service_calls + 1
    /\ connected' = FALSE
    /\ \E request \in Requests :
          endpoint' =
             [name |-> request.name,
              phase |-> "connecting",
              id |-> request.id,
              text |-> IF request.name = "save_information"
                       THEN <<"Example Context for question:">>
                            \o StateValue("question", <<question>>) \o <<"\n\n">>
                            \o StateValue("information", information)
                       ELSE request.text,
              context |-> request.context,
              found |-> <<>>]
    /\ UNCHANGED <<sql_context, sql_agent, auto_id, thread_vars, rag_vars>>

\* the rest of a handler: connections.connect, Collection(name), the operation
Completes(name) ==
    /\ endpoint.phase = "connecting"
    /\ endpoint.name = name
    /\ connected' = TRUE
    /\ UNCHANGED <<service_calls, thread_vars, rag_vars>>

\* collection.insert(data) with auto_id: the row gets the next primary key
insert(rows, row) == rows \cup {row}

\* collection.delete(f"id == {doc_id}")
delete_data(rows, doc_id) == {r \in rows : r.id # doc_id}

insert_sql_context ==
    /\ Completes("insert_context")
    /\ sql_context' = insert(sql_context, [id |-> auto_id, text |-> endpoint.text[1],
                                           context |-> endpoint.context])
    /\ auto_id' = auto_id + 1
    /\ endpoint' = [endpoint EXCEPT !.phase = "done", !.id = auto_id]
    /\ UNCHANGED sql_agent

retrieve_sql_context ==
    /\ Completes("retrieve_context")
    /\ endpoint' = [endpoint EXCEPT !.phase = "done",
                                    !.found = retrieve_contexts(sql_context, DefaultLimit)]
    /\ UNCHANGED <<sql_context, sql_agent, auto_id>>

delete_sql_context ==
    /\ Completes("delete_context")
    /\ sql_context' = delete_data(sql_context, endpoint.id)
    /\ endpoint' = [endpoint EXCEPT !.phase = "done"]
    /\ UNCHANGED <<sql_agent, auto_id>>

save_information ==
    /\ Completes("save_information")
    /\ sql_agent' = insert(sql_agent, [id |-> auto_id, text |-> endpoint.text])
    /\ auto_id' = auto_id + 1
    /\ endpoint' = [endpoint EXCEPT !.phase = "done"]
    /\ UNCHANGED sql_context

\* info_id = state.values.get("information_id"): State has no such channel
delete_information ==
    /\ Completes("delete_information")
    /\ sql_agent' = delete_data(sql_agent, None)
    /\ endpoint' = [endpoint EXCEPT !.phase = "done", !.id = None]
    /\ UNCHANGED <<sql_context, auto_id>>

\* update_information for the thread while its run is stopped or left at (at):
\* fork the latest checkpoint whose next node is sufficient_tables, write
\* information as the node that wrote last, and stream the run from there
update_information(at) ==
    /\ pc \in at
    /\ endpoint.phase # "connecting"
    /\ service_calls < MaxCalls
    /\ service_calls' = service_calls + 1
    /\ \E payload \in Briefs :
          IF fork = {}
          THEN \* fork_cfg is None and aupdate_state raises: HTTP 500
               /\ endpoint' = [NoCall EXCEPT !.name = "update_information",
                                             !.phase = "failed"]
               /\ UNCHANGED <<thread_vars, rag_vars>>
          ELSE LET checkpoint == CHOOSE c \in fork : TRUE
               IN /\ endpoint' = [NoCall EXCEPT !.name = "update_information"]
                  /\ messages' = checkpoint.messages
                  /\ information' = payload
                  /\ written' = checkpoint.written \cup {"information"}
                  /\ question' = checkpoint.question
                  /\ sufficient_info' = checkpoint.sufficient_info
                  /\ query' = checkpoint.query
                  /\ max_retries' = checkpoint.max_retries
                  /\ chart_type' = checkpoint.chart_type
                  /\ ran' = checkpoint.ran
                  /\ fork' = {[checkpoint EXCEPT !.information = payload]}
                  /\ pc' = "sufficient_tables"
                  /\ active' = {"sufficient_tables"}
                  /\ step' = 0
                  /\ UNCHANGED <<rag_vars, evidence, routed, invocations, classification, classifier_calls, result,
                                 prompt, reranked>>
    /\ UNCHANGED <<connected, sql_context, sql_agent, auto_id>>

update_stopped == update_information(Stopped)

update_discovery == update_information(Stopped \cup Generation)

\* Schema discovery on its own.  The compiled path map sends get_context's
\* discovery label to END, so no run of Spec reaches these nodes; here the
\* label leads to the node it names and a run is followed until it leaves
\* the sufficiency loop for query generation.
NextDiscovery ==
    \/ invoke_discovery
    \/ start
    \/ react_agent
    \/ transform_user_question
    \/ discovery_get_context
    \/ Discovery
    \/ update_discovery

SpecDiscovery == Init /\ [][NextDiscovery]_vars

\* The service and one thread: the compiled workflow as far as get_context,
\* which runs in a worker thread, and the Context Store handlers, which run
\* in the event loop's thread.
NextStore ==
    \/ invoke_discovery
    \/ start
    \/ react_agent
    \/ transform_user_question
    \/ workflow_get_context
    \/ get_collection_disconnect
    \/ insert_sql_context
    \/ retrieve_sql_context
    \/ delete_sql_context
    \/ save_information
    \/ delete_information
    \/ update_stopped

SpecStore == Init /\ [][NextStore]_vars

\* ------------------------------------------------ the adaptive RAG agent
\* what search_vectorstore returns for a question
Retrieved == {<<>>, <<"doc1", "doc2">>}

Grades == {"yes", "no"}

\* state.get(key, default)
Get(key, value, default) == IF key \in written THEN value ELSE default

transform_query_path ==
    [vectorstore |-> "vectorstore_retrieval", websearch |-> "web_search"]

\* the edge out of grade_documents; what it assigns to state is assigned to
\* the mapping the edge was handed and reaches no channel
decide_to_generate_answer(docs, iterations) ==
    IF docs = <<>>
    THEN IF iterations - 1 > 0 THEN "transform_query" ELSE "no_documents"
    ELSE "generate_answer"

grade_documents_path ==
    [generate_answer |-> "generate_answer", transform_query |-> "transform_query",
     no_documents |-> "summarise_conversation"]

\* the edge out of generate_answer; its assignments to state reach no channel
grade_generated_answer(hallucination_grade, answer_grade, attempts) ==
    IF hallucination_grade = "yes"
    THEN IF answer_grade = "yes" THEN "finished" ELSE "not_useful"
    ELSE IF attempts > 0 THEN "not_supported" ELSE "finished"

generate_answer_path ==
    [finished |-> "summarise_conversation", not_supported |-> "generate_answer",
     not_useful |-> "transform_query"]

\* the channels of the SQL agent's State, which no node of this graph has
sql_vars == <<information, sufficient_info, query, max_retries, chart_type, result, prompt,
              reranked, fork, routed, evidence>>

\* The models and the store are asked the same things again and again within
\* one invocation; each answers one way throughout it: the router's
\* datasource, the documents found, the documents graded relevant, and the
\* two grades of a generated answer.
Models ==
    [datasource : DOMAIN transform_query_path,
     retrieved_docs : Retrieved,
     relevant : SUBSET {"doc1", "doc2"},
     hallucination_grade : Grades,
     answer_grade : Grades]

\* a message arrives on a thread of the adaptive RAG agent; START leads to
\* transform_query
invoke_rag ==
    /\ pc \in Stopped
    /\ invocations < MaxInvocations
    /\ Len(messages) < MaxLog
    /\ invocations' = invocations + 1
    /\ messages' = Append(messages,
                        HumanMessage(<<IF invocations = 0 THEN UserMessage ELSE FollowUp>>))
    /\ written' = written \cup {"messages"}
    /\ pc' = "transform_query"
    /\ step' = 0
    /\ ran' = <<>>
    /\ active' = {"transform_query"}
    /\ models' \in Models
    /\ UNCHANGED <<classification, classifier_calls, question, store_vars, documents,
                   generation, summary, max_iterations, max_generation_attempts, sql_vars>>

transform_query ==
    /\ Runs("transform_query")
    /\ \E transformed_question \in Questions :
          /\ question' = transformed_question
          /\ messages' = Append(messages, HumanMessage(<<transformed_question>>))
    /\ documents' = Get("documents", documents, List(<<>>))
    /\ written' = written \cup {"question", "documents"}
    /\ Advance("transform_query", transform_query_path[models.datasource])
    /\ UNCHANGED <<generation, summary, max_iterations, max_generation_attempts, models,
                   sql_vars>>

vectorstore_retrieval ==
    /\ Runs("vectorstore_retrieval")
    /\ documents' = List(models.retrieved_docs)
    /\ question' = Get("question", question, "")
    /\ written' = written \cup {"question", "documents"}
    /\ Advance("vectorstore_retrieval", "grade_documents")
    /\ UNCHANGED <<messages, generation, summary, max_iterations, max_generation_attempts,
                   models, sql_vars>>

grade_documents ==
    /\ Runs("grade_documents")
    /\ LET filtered_documents ==
               SelectSeq(documents.list, LAMBDA document : document \in models.relevant)
       IN /\ documents' = List(filtered_documents)
          /\ Advance("grade_documents",
                grade_documents_path[decide_to_generate_answer(filtered_documents,
                                         Get("max_iterations", max_iterations, 3))])
    /\ question' = Get("question", question, "")
    /\ written' = written \cup {"question", "documents"}
    /\ UNCHANGED <<messages, generation, summary, max_iterations, max_generation_attempts,
                   models, sql_vars>>

web_search ==
    /\ Runs("web_search")
    /\ IF Get("documents", documents, List(<<>>)).none
       THEN \* None.extend
            /\ pc' = "Exception"
            /\ UNCHANGED <<step, invocations, ran, classification, classifier_calls, active,
                           written, question, documents, store_vars>>
       ELSE \* documents = documents.extend(web_search_results)
            /\ documents' = NoDocuments
            /\ question' = Get("question", question, "")
            /\ written' = written \cup {"question", "documents"}
            /\ Advance("web_search", "generate_answer")
    /\ UNCHANGED <<messages, generation, summary, max_iterations, max_generation_attempts,
                   models, sql_vars>>

generate_answer ==
    /\ Runs("generate_answer")
    /\ generation' = "answer"
    /\ messages' = Append(messages, AIMessage(<<"answer">>))
    /\ question' = Get("question", question, "")
    /\ documents' = Get("documents", documents, List(<<>>))
    /\ written' = written \cup {"generation", "question", "documents"}
    /\ Advance("generate_answer",
               generate_answer_path[grade_generated_answer(models.hallucination_grade,
                   models.answer_grade,
                   Get("max_generation_attempts", max_generation_attempts, 3))])
    /\ UNCHANGED <<summary, max_iterations, max_generation_attempts, models, sql_vars>>

summarise_conversation ==
    /\ Runs("summarise_conversation")
    /\ IF Len(messages) <= 3
       THEN \* return state
            UNCHANGED <<messages, summary, documents, written>>
       ELSE /\ summary' = "summary"
            /\ messages' = SubSeq(messages, Len(messages) - 1, Len(messages))
            /\ documents' = List(<<>>)
            /\ written' = written \cup {"summary", "documents"}
    /\ Advance("summarise_conversation", "END")
    /\ UNCHANGED <<question, generation, max_iterations, max_generation_attempts, models,
                   sql_vars>>

NextRag ==
    \/ invoke_rag
    \/ transform_query
    \/ vectorstore_retrieval
    \/ grade_documents
    \/ web_search
    \/ generate_answer
    \/ summarise_conversation
    \/ GraphRecursion

SpecRag == Init /\ [][NextRag]_vars

\* ------------------------------------------------------------ properties
\* the messages logged since the question of the current invocation
RunIndices ==
    {i \in 1..Len(messages) : \A j \in i..Len(messages) : messages[j].type # "human"}

IsCallOf(m, tool) == Len(m.tool_calls) > 0 /\ m.tool_calls[1].name = tool

\* executions of the current invocation whose payload is tagged "Error:"
ExecutionFailures ==
    Cardinality({i \in RunIndices :
        /\ messages[i].type = "tool"
        /\ StartsWithError(messages[i].content)
        /\ i > 1
        /\ IsCallOf(messages[i - 1], "db_query_tool")})

JustRan(node) == Len(ran) > 0 /\ Last(ran) = node

HasRun(node) == node \in Elements(ran)

CouldNotGenerate == <<"could not generate">>

\* C1: with the budget at 1, once two executions of the invocation have
\* failed the pipeline generates, executes and charts nothing more; it stops
\* at END with the "could not generate" message as its last output.
C1_ScenarioC ==
    ExecutionFailures >= 2 =>
        /\ pc \notin {"query_gen", "get_query_execution", "query_execute",
                      "chart_generation"}
        /\ ~HasRun("chart_generation")
        /\ pc \in Stopped =>
              pc = "END" /\ Last(messages).content = CouldNotGenerate

\* C2: no data-request session is cut off in the generate/execute loop: the
\* loop ends by itself, so an invocation never stops at the recursion limit.
C2_LoopTerminates == pc # "GraphRecursionError"

\* C3: a failed execution with budget left leads back to query_gen, and by
\* the time the regenerated statement is handed to the executor max_retries
\* has dropped by one for every failed execution of the invocation.
C3_CorrectionDecrements ==
    /\ (/\ JustRan("query_execute")
        /\ StartsWithError(Last(messages).content)
        /\ max_retries >= 0
        /\ pc # "GraphRecursionError") => pc = "query_gen"
    /\ pc = "get_query_execution" => max_retries = 1 - ExecutionFailures

C5_NoContextStartsDiscovery ==
    (JustRan("get_context") /\ Last(messages).content = <<"No context found">>) =>
        /\ information = <<>>
        /\ pc = "info_sql_database_tool_call"

Proposed(i) ==
    {messages[i].tool_calls[k].args : k \in 1..Len(messages[i].tool_calls)}

SelectionIndices == {i \in RunIndices : IsCallOf(messages[i], "get_schema_tool")}

RouterRaised == pc = "Exception" /\ classification = ""

\* C11: when the router's classification call raises, the invocation stops
\* in a failure: the classifier was called once, no node has run, nothing was
\* logged after the question, and only a new question moves the thread on.
C11_RouterFailureIsTerminal ==
    /\ [](RouterRaised =>
            /\ classifier_calls = 1
            /\ ran = <<>>
            /\ step = 0
            /\ Last(messages).type = "human")
    /\ [][RouterRaised => pc' = "START" /\ invocations' = invocations + 1]_vars

C11_Witness ==
    /\ RouterRaised
    /\ invocations = 2
    /\ "query" \in written

ChartStages == {"chart_generation", "line_graph_tool", "bar_graph_tool"}

\* C12: chart_generation is entered only from an execution whose payload has
\* no "Error:" tag, that payload being the last message it reads; a failed
\* execution is never followed by a chart stage.
C12_ChartOnlyAfterSuccess ==
    /\ [](pc = "chart_generation" =>
            /\ JustRan("query_execute")
            /\ Last(messages).type = "tool"
            /\ ~StartsWithError(Last(messages).content))
    /\ [][(pc = "query_execute" /\ StartsWithError(Last(messages').content)) =>
             pc' \notin ChartStages]_vars
    /\ [][(pc' \in ChartStages /\ pc' # pc) =>
             pc \in {"query_execute", "chart_generation"}]_vars

C12_Witness ==
    /\ pc = "chart_generation"
    /\ ExecutionFailures >= 1

\* C13: when the chart kind is neither line nor bar, the stage after
\* chart_generation is final_answer.
C13_NoneRunsFinalAnswer ==
    (/\ JustRan("chart_generation")
     /\ chart_type \notin {"line", "bar"}
     /\ pc # "GraphRecursionError") => pc = "final_answer"

Renderers == {"line_graph_tool", "bar_graph_tool"}

\* C14: once chart_generation has run, line_graph_tool runs exactly when
\* chart_type is line and bar_graph_tool exactly when it is bar, and an
\* invocation runs at most one renderer.
C14_RendererMatchesKind ==
    /\ HasRun("line_graph_tool") => chart_type = "line"
    /\ HasRun("bar_graph_tool") => chart_type = "bar"
    /\ JustRan("chart_generation") =>
          /\ chart_type = "line" <=> pc = "line_graph_tool"
          /\ chart_type = "bar" <=> pc = "bar_graph_tool"
    /\ (HasRun("chart_generation") /\ pc \in Stopped) =>
          /\ chart_type = "line" <=> HasRun("line_graph_tool")
          /\ chart_type = "bar" <=> HasRun("bar_graph_tool")
    /\ Len(SelectSeq(ran, LAMBDA n : n \in Renderers)) <= 1

C14_Witness ==
    /\ pc = "END"
    /\ HasRun("bar_graph_tool")
    /\ ExecutionFailures >= 1
    /\ invocations = 2

\* the tool names the chart models call: @tool("bar_graph") names the bar one
RendererCalls == {"line_graph_tool", "bar_graph"}

\* the renderer outputs of the current invocation that are error payloads
RendererFailures ==
    {i \in RunIndices :
        /\ messages[i].type = "tool"
        /\ StartsWithError(messages[i].content)
        /\ i > 1
        /\ \E tool \in RendererCalls : IsCallOf(messages[i - 1], tool)}

\* the payload of the last execution of the current invocation
LastPayload ==
    LET executions == {i \in RunIndices :
                          i > 1 /\ IsCallOf(messages[i - 1], "db_query_tool")}
    IN messages[CHOOSE i \in executions : \A j \in executions : j <= i].content

\* C15: after a renderer failure the next stage is final_answer, the
\* invocation stops only at END, and its last message is then the text the
\* execution returned.
C15_FallbackToResultText ==
    RendererFailures # {} =>
        /\ pc \in {"final_answer", "END"}
        /\ pc = "END" =>
              /\ JustRan("final_answer")
              /\ Last(messages).content = LastPayload

\* C16: the log of an invocation holds no renderer output tagged "Error:".
C16_RendererFailureNotLogged == RendererFailures = {}

\* the execution failed: run_no_throw returned "Error: ..." or the tool raised
Failed(outcome) == outcome \in ToolExceptions \/ StartsWithError(outcome)

\* text occurs in payload as a run of consecutive elements
Contains(payload, text) ==
    \E k \in 1..(Len(payload) - Len(text) + 1) :
        SubSeq(payload, k, k + Len(text) - 1) = text

\* C17: a successful result of at most ResultLimit characters is returned
\* unchanged; a longer one as its first ResultLimit characters followed by
\* "...", so no success payload is longer than ResultLimit + 3.
C17_ResultCapped ==
    (JustRan("query_execute") /\ ~Failed(result)) =>
        LET payload == Last(messages).content
        IN /\ Len(result) <= ResultLimit => payload = result
           /\ Len(result) > ResultLimit =>
                 /\ SubSeq(payload, 1, ResultLimit) = SubSeq(result, 1, ResultLimit)
                 /\ SubSeq(payload, ResultLimit + 1, Len(payload)) = <<".", ".", ".">>
           /\ Len(payload) <= ResultLimit + 3

C17_Witness ==
    /\ JustRan("query_execute")
    /\ ~Failed(result)
    /\ Len(result) > ResultLimit
    /\ Len(Last(messages).content) = ResultLimit + 3
    /\ pc = "chart_generation"

\* C18: the executor's payload starts with "Error:" exactly when the
\* execution failed, and a failure's payload contains the error text.
C18_ErrorTagFaithful ==
    JustRan("query_execute") =>
        /\ StartsWithError(Last(messages).content) <=> Failed(result)
        /\ Failed(result) => Contains(Last(messages).content, result)

C18_Witness ==
    /\ JustRan("query_execute")
    /\ result \in ToolExceptions
    /\ StartsWithError(Last(messages).content)
    /\ pc = "query_gen"

\* C19: a Query Generator run changes nothing but query, which it replaces,
\* and the log, to which it appends one message: question, information,
\* max_retries, sufficient_info and every message logged before stay.
C19_GeneratorFrame ==
    [][(pc \in Generation /\ pc' = "get_query_execution") =>
          /\ question' = question
          /\ information' = information
          /\ max_retries' = max_retries
          /\ sufficient_info' = sufficient_info
          /\ chart_type' = chart_type
          /\ Len(messages') = Len(messages) + 1
          /\ SubSeq(messages', 1, Len(messages)) = messages
          /\ Last(messages').type = "ai"
          /\ written' = written \cup {"query"}]_vars

\* a fresh-mode run on the question and brief of an earlier run of the thread
C19_Witness ==
    /\ invocations = 2
    /\ JustRan("query_gen_with_context")
    /\ pc = "get_query_execution"
    /\ Len(messages) > 4
    /\ messages[4].content = <<"Query:", "SELECT 1", "Reasoning:">>
    /\ messages[3].content = <<"Retrieved Context:">> \o information
    /\ query = "SELECT 2"

\* some message of the generator's prompt holds text
Prompted(text) == \E i \in 1..Len(prompt) : Contains(prompt[i].content, text)

\* C20: a query_gen run that follows a failed execution was given the
\* statement that failed, the executor's error payload and the brief; a
\* fresh run was given no error payload.
C20_CorrectionInput ==
    /\ (JustRan("query_gen") /\ StartsWithError(messages[Len(messages) - 1].content)) =>
          /\ Prompted(<<messages[Len(messages) - 2].tool_calls[1].args>>)
          /\ \E i \in 1..Len(prompt) : prompt[i] = messages[Len(messages) - 1]
          /\ \E i \in 1..Len(prompt) : prompt[i].content = information
    /\ JustRan("query_gen_with_context") =>
          \A i \in 1..Len(prompt) : ~StartsWithError(prompt[i].content)

C22_LogAppendOnly ==
    [][/\ Len(messages') >= Len(messages)
       /\ SubSeq(messages', 1, Len(messages)) = messages]_vars

C22_Witness ==
    /\ invocations = 2
    /\ pc = "END"
    /\ HasRun("final_answer")
    /\ ExecutionFailures >= 1
    /\ Len(messages) >= MaxLog

\* C23: at most one node is triggered for the next superstep, and while an
\* invocation runs the node to run next is that node.
C23_SingleThreadOfControl ==
    /\ Cardinality(active) <= 1
    /\ pc \notin Stopped \cup {"START"} => active = {pc}

C23_Witness ==
    /\ pc = "query_gen"
    /\ active = {"query_gen"}
    /\ ExecutionFailures >= 1
    /\ invocations = 2

\* C24: no Context Store operation meets a store that is not connected, and
\* rows inserted by different calls have different ids.
C24_StoreNeedsNoLocking ==
    /\ pc # "ConnectionNotExistException"
    /\ \A a \in sql_context : \A b \in sql_context : a.id = b.id => a = b

\* the exemplars saved from a thread that held a question and information
ThreadExemplars == {e \in sql_agent : ~Contains(e.text, <<"None">>)}

\* C25: every exemplar save_information has stored for a session is a row of
\* the collection get_context searches.
C25_SavedExemplarRetrievable ==
    \A exemplar \in ThreadExemplars : \E row \in sql_context : row.id = exemplar.id

\* C26: once delete_information has returned, the id it deleted is one a
\* save recorded and no exemplar saved for the thread is left in the store.
C26_DeleteRemovesExemplar ==
    (endpoint.name = "delete_information" /\ endpoint.phase = "done") =>
        \/ ThreadExemplars = {}
        \/ /\ endpoint.id # None
           /\ \A exemplar \in ThreadExemplars : exemplar.id # endpoint.id

\* the thread's data request took get_context's schema-discovery label
TookDiscoveryLabel ==
    /\ HasRun("get_context")
    /\ "information" \in written
    /\ reranked.ids = <<>>
    /\ pc # "ConnectionNotExistException"

\* C27: update_information on a thread whose data request took the
\* schema-discovery label finds a checkpoint to fork and leaves the run at
\* sufficient_tables with the injected information.
C27_InjectResumesAtGate ==
    (endpoint.name = "update_information" /\ TookDiscoveryLabel) =>
        endpoint.phase = "done"

\* the context payload stored with candidate id among the retrieved candidates
PayloadOf(id) ==
    (CHOOSE c \in Elements(reranked.candidates) : c.id = id).context

Returned(node) == HasRun(node) /\ pc \notin {"Exception", "ConnectionNotExistException"}

\* C28: once get_context has returned over a non-empty candidate list,
\* information is, for each id the reranker returned and in the reranker's
\* order, that candidate's context payload followed by a blank line, and no
\* payload of a candidate the reranker left out occurs in it.
C28_SelectedContextsInOrder ==
    (Returned("get_context") /\ reranked.candidates # <<>>) =>
        /\ Len(information) = 2 * Len(reranked.ids)
        /\ \A k \in 1..Len(reranked.ids) :
              /\ information[2 * k - 1] = PayloadOf(reranked.ids[k])
              /\ information[2 * k] = "\n\n"
        /\ \A c \in Elements(reranked.candidates) :
              c.id \notin Elements(reranked.ids) => c.context \notin Elements(information)

\* two contexts were selected, in an order that is not the store's, and a
\* third candidate was left out
C28_Witness ==
    /\ Returned("get_context")
    /\ Len(reranked.candidates) = 3
    /\ reranked.ids = <<2, 1>>
    /\ information = <<"context2", "\n\n", "context1", "\n\n">>
    /\ pc = "query_gen_with_context"

IsGenerated(m) ==
    m.type = "ai" /\ Len(m.content) = 3 /\ m.content[1] = "Query:"

\* C29: the statement handed to the executor is the candidate of the most
\* recent generation: every execution of an invocation comes right after the
\* call built right after one generator run, and every generator run is
\* followed by its call and its execution, so exactly one generation lies
\* between two executions; every db_query_tool call in the log carries the
\* statement of the generator message logged just before it, and the call
\* about to be executed carries the current query.
C29_ExecutesLatestCandidate ==
    /\ \A i \in 1..Len(ran) :
          ran[i] = "query_execute" =>
              /\ i > 2
              /\ ran[i - 1] = "get_query_execution"
              /\ ran[i - 2] \in Generation
    /\ \A i \in 1..(Len(ran) - 1) :
          /\ ran[i] \in Generation => ran[i + 1] = "get_query_execution"
          /\ ran[i] = "get_query_execution" => ran[i + 1] = "query_execute"
    /\ \A i \in 1..Len(messages) :
          IsCallOf(messages[i], "db_query_tool") =>
              /\ i > 1
              /\ IsGenerated(messages[i - 1])
              /\ messages[i].tool_calls[1].args = messages[i - 1].content[2]
    /\ pc = "query_execute" =>
          /\ IsCallOf(Last(messages), "db_query_tool")
          /\ Last(messages).tool_calls[1].args = query

\* a second execution of an invocation, after a correction that produced a
\* statement other than the one that failed
C29_Witness ==
    /\ pc = "query_execute"
    /\ HasRun("query_execute")
    /\ \E i \in 1..Len(messages) :
          /\ i + 3 = Len(messages)
          /\ IsCallOf(messages[i], "db_query_tool")
          /\ StartsWithError(messages[i + 1].content)
          /\ messages[i].tool_calls[1].args # query

\* C30: in the compiled graph continue_query_gen never answers "failed":
\* max_retries, once written, is 0 or 1, so the edge function answers
\* "query_gen" or "correct_query" for every message, and no invocation goes
\* from query_execute to END.
C30_NeverFailed ==
    /\ "max_retries" \in written => max_retries \in {0, 1}
    /\ (pc \notin Stopped /\ "max_retries" \in written /\ Len(messages) > 0) =>
          continue_query_gen(max_retries, Last(messages)) # "failed"
    /\ JustRan("query_execute") => pc # "END"

\* the third generation of an invocation is due after two failed executions,
\* the budget still at its reset value
C30_Witness ==
    /\ JustRan("query_execute")
    /\ ExecutionFailures >= 2
    /\ pc = "query_gen"
    /\ max_retries = 1

\* Table Selector runs of the current question
SelectorRuns == Cardinality({i \in 1..Len(ran) : ran[i] = "tables_selector"})

Submitted ==
    messages[CHOOSE i \in 1..Len(messages) :
                 messages[i].type = "human" /\ \A j \in (i + 1)..Len(messages) : j \in RunIndices]

\* C33: whenever the router has classified in an invocation, what it was
\* given is the first message of the thread's log: for a follow-up question
\* that is the thread's first user message and not the message submitted.
C33_RouterReadsFirstMessage ==
    classifier_calls > 0 => routed = <<messages[1]>>

\* a follow-up question has been routed as a data request on the first
\* message of the thread
C33_Witness ==
    /\ invocations = 2
    /\ classifier_calls = 1
    /\ pc = "transform_user_question"
    /\ Submitted = HumanMessage(<<FollowUp>>)
    /\ routed = <<HumanMessage(<<UserMessage>>)>>
    /\ routed # <<Submitted>>

\* the reranker's answer names an id that was not among the candidates
NamesUnknownId(r) ==
    \E k \in 1..Len(r.ids) : \A c \in Elements(r.candidates) : c.id # r.ids[k]

\* C34: a get_context call whose reranker names an id that is not among the
\* candidates retrieved in that call raises: information, the log and every
\* other channel stay as they were, no stage is recorded as run, and the
\* invocation runs nothing more (only a new submission leaves the failure).
C34_UnknownIdRaises ==
    [][/\ (pc = "get_context" /\ pc' # pc /\ pc' # "ConnectionNotExistException"
            /\ NamesUnknownId(reranked')) =>
              /\ pc' = "Exception"
              /\ information' = information
              /\ messages' = messages
              /\ written' = written
              /\ ran' = ran
       /\ pc = "Exception" => (pc' = "START" /\ ran' = <<>>)]_vars

\* the retrieval of a follow-up question has failed on an unknown id named
\* after a known one; the brief of the first question is still in place
C34_Witness ==
    /\ pc = "Exception"
    /\ invocations = 2
    /\ ran = <<"transform_user_question">>
    /\ reranked.ids = <<2, 9>>
    /\ Len(reranked.candidates) = 3
    /\ information = <<"context2", "\n\n", "context1", "\n\n">>
    /\ Last(messages).content = <<"rewritten question">>

\* the statement of the last execution of the current invocation
LastExecuted ==
    LET executions == {i \in RunIndices :
                          i > 1 /\ IsCallOf(messages[i - 1], "db_query_tool")}
        last == CHOOSE i \in executions : \A j \in executions : j <= i
    IN messages[last - 1].tool_calls[1].args

\* C35: a final_answer run appends exactly the current query, that query is
\* the statement of the invocation's last execution, and the payload of that
\* execution does not start with "Error:".
C35_FinalAnswerIsSuccessfulQuery ==
    [][(pc = "final_answer" /\ pc' = "END") =>
          /\ messages' = Append(messages, AIMessage(<<query>>))
          /\ query' = query
          /\ HasRun("query_execute")
          /\ LastExecuted = query
          /\ ~StartsWithError(LastPayload)]_vars

\* final_answer has emitted a corrected statement: an earlier execution of
\* the invocation failed, and the statement emitted is not the failed one
C35_Witness ==
    /\ pc = "END"
    /\ JustRan("final_answer")
    /\ ExecutionFailures >= 1
    /\ Last(messages) = AIMessage(<<query>>)
    /\ \E i \in RunIndices :
          /\ IsCallOf(messages[i], "db_query_tool")
          /\ messages[i].tool_calls[1].args # query
          /\ StartsWithError(messages[i + 1].content)

\* the messages of the log that are tool messages
ToolMessages(log) == {j \in 1..Len(log) : log[j].type = "tool"}

C37_NotSupportedLoopBounded ==
    \A i \in 1..(Len(ran) - 4) : \E k \in i..(i + 4) : ran[k] # "generate_answer"

\* C38: the question is rewritten from grade_documents at most
\* max_iterations (3) times: an invocation goes from grade_documents to
\* transform_query at most three times.
C38_RewriteLoopBounded ==
    Cardinality({i \in 1..(Len(ran) - 1) :
                    ran[i] = "grade_documents" /\ ran[i + 1] = "transform_query"}) <= 3

====
